---------------------------- MODULE Spec2Model ----------------------------
(***************************************************************************)
(* Model of the two helpers of the repository:                             *)
(*   src/logger/custom_logger.py  CustomLogger (configure-once logger)     *)
(*   src/utlis/config_loader.py   load_config  (YAML configuration loader) *)
(*                                                                         *)
(* A string that names a path is a sequence of tokens: "/" or a maximal    *)
(* run of non-slash characters (a segment).  A path object is a record     *)
(* [root, parts]: root is "", "/" or "//" and parts the sequence of        *)
(* segments, as pathlib.PurePosixPath keeps them.                          *)
(***************************************************************************)
EXTENDS Integers, Sequences, FiniteSets, TLC

(* ------------------------------ bounds -------------------------------- *)
MaxPathLen == 3
MaxRepoDepth == 2
NumThreads == 2
MaxConstructions == 2
MaxClock == 1

(* --------------------------- path strings ----------------------------- *)
Slash == "/"
Segments == {".", "cfg"}
Tokens == {Slash} \cup Segments

WellFormed(s) ==
    \A i \in 1..(Len(s) - 1) : s[i] = Slash \/ s[i + 1] = Slash

RECURSIVE SeqsUpTo(_, _)
SeqsUpTo(S, n) ==
    IF n = 0 THEN {<<>>}
    ELSE LET shorter == SeqsUpTo(S, n - 1)
         IN  shorter \cup {Append(s, x) : s \in shorter, x \in S}

PathStrings == {s \in SeqsUpTo(Tokens, MaxPathLen) : WellFormed(s)}

(* Python's None and a present value.                                      *)
None == [some |-> FALSE]
Some(v) == [some |-> TRUE, val |-> v]
OptPathStrings == {None} \cup {Some(s) : s \in PathStrings}

(* ------------------------ pathlib (posix flavour) --------------------- *)
RECURSIVE LeadingSlashes(_)
LeadingSlashes(s) ==
    IF s = <<>> \/ Head(s) # Slash THEN 0 ELSE 1 + LeadingSlashes(Tail(s))

KeptSegment(t) == t # Slash /\ t # "."

(* Path(str): exactly two leading slashes are kept as the root "//", any   *)
(* other number collapses to "/"; empty and "." segments are dropped.      *)
Path(s) ==
    [root  |-> IF LeadingSlashes(s) = 0 THEN ""
               ELSE IF LeadingSlashes(s) = 2 THEN "//" ELSE "/",
     parts |-> SelectSeq(s, KeptSegment)]

is_absolute(p) == p.root # ""

(* a / b *)
JoinPath(a, b) ==
    IF is_absolute(b) THEN b ELSE [root |-> a.root, parts |-> a.parts \o b.parts]

RECURSIVE JoinSegments(_)
JoinSegments(parts) ==
    IF parts = <<>> THEN <<>>
    ELSE IF Len(parts) = 1 THEN parts
    ELSE <<Head(parts), Slash>> \o JoinSegments(Tail(parts))

RootTokens(r) ==
    IF r = "" THEN <<>> ELSE IF r = "/" THEN <<Slash>> ELSE <<Slash, Slash>>

(* str(path) *)
PathStr(p) ==
    IF p.root = "" /\ p.parts = <<>> THEN <<".">>
    ELSE RootTokens(p.root) \o JoinSegments(p.parts)

(* path.parents[i] *)
Parents(p, i) == [root |-> p.root, parts |-> SubSeq(p.parts, 1, Len(p.parts) - (i + 1))]

(* ------------------------------ os.path -------------------------------- *)
dirname(p) == [root |-> p.root, parts |-> SubSeq(p.parts, 1, Len(p.parts) - 1)]

os_path_join(p, seg) == [root |-> p.root, parts |-> Append(p.parts, seg)]

RECURSIVE NormParts(_, _)
NormParts(done, rest) ==
    IF rest = <<>> THEN done
    ELSE IF Head(rest) = "." THEN NormParts(done, Tail(rest))
    ELSE IF Head(rest) = ".."
         THEN IF done = <<>>
              THEN NormParts(done, Tail(rest))
              ELSE NormParts(SubSeq(done, 1, Len(done) - 1), Tail(rest))
    ELSE NormParts(Append(done, Head(rest)), Tail(rest))

(* os.path.abspath of a path that is already absolute: normpath.           *)
abspath(p) == [root |-> p.root, parts |-> NormParts(<<>>, p.parts)]

(* --------------------------- repository layout ------------------------- *)
RepoDirs ==
    {[root |-> "/", parts |-> SubSeq(<<"home", "app", "work">>, 1, n)] : n \in 0..MaxRepoDepth}

ConfigLoaderFile(repo) ==
    [root |-> repo.root, parts |-> repo.parts \o <<"src", "utlis", "config_loader.py">>]
CustomLoggerFile(repo) ==
    [root |-> repo.root, parts |-> repo.parts \o <<"src", "logger", "custom_logger.py">>]

(* ------------------------- project root directories -------------------- *)
(* config_loader.py: Path(__file__).resolve().parents[1]                   *)
_project_root_dir(repo) == Parents(ConfigLoaderFile(repo), 1)

(* custom_logger.py: abspath(join(dirname(__file__), "..", ".."))          *)
root_dir(repo) ==
    abspath(os_path_join(os_path_join(dirname(CustomLoggerFile(repo)), ".."), ".."))

(* ------------------------------ Python values -------------------------- *)
PyNone == [type |-> "NoneType"]
PyDict(ks, vs) == [type |-> "dict", keys |-> ks, vals |-> vs]
PyList(xs) == [type |-> "list", items |-> xs]
PyInt(v) == [type |-> "int", val |-> v]
PyStr(v) == [type |-> "str", val |-> v]
EmptyDict == PyDict(<<>>, <<>>)

(* bool(v) *)
Truthy(v) ==
    CASE v.type = "NoneType" -> FALSE
      [] v.type = "dict" -> v.keys # <<>>
      [] v.type = "list" -> v.items # <<>>
      [] v.type = "int" -> v.val # "0"
      [] v.type = "str" -> v.val # ""

(* The documents a configuration file can hold, by what yaml.safe_load     *)
(* yields for them; an empty file yields None.                             *)
Documents ==
    { PyNone, EmptyDict,
      PyDict(<<"a">>, <<"s3cret">>),
      PyDict(<<"a", "b">>, <<"s3cret", "0">>),
      PyDict(<<"b", "a">>, <<"0", "s3cret">>),
      PyList(<<>>), PyList(<<"s3cret">>),
      PyInt("0"), PyInt("7"), PyStr(""), PyStr("s3cret") }

(* What the resolved path names on disk when load_config runs.             *)
Missing == [kind |-> "missing"]
Directory == [kind |-> "directory"]
Unreadable == [kind |-> "unreadable"]
Malformed == [kind |-> "file", wellformed |-> FALSE]
FileWith(doc) == [kind |-> "file", wellformed |-> TRUE, doc |-> doc]
FileStates ==
    {Missing, Directory, Unreadable, Malformed} \cup {FileWith(d) : d \in Documents}

(* ------------------------------- exceptions ---------------------------- *)
Exc(t) == [type |-> t]
NoExc == [type |-> "none"]
(* The builtin and library errors load_config can meet are all subclasses  *)
(* of Exception.                                                           *)
ExceptionSubclasses ==
    {"FileNotFoundError", "IsADirectoryError", "PermissionError", "YAMLError"}

FailedMessage == "Failed to load configuration file"
CustomException(msg, e) ==
    [type |-> "CustomException", message |-> msg, details |-> e, context |-> e]

(* ================================ state ================================ *)
VARIABLES
    repoDir,        \* directory the repository is checked out in
    CONFIG_PATH,    \* the process environment's CONFIG_PATH (None: unset)
    pc,             \* position of the running load_config call
    config_path,    \* load_config's argument (None: not provided)
    file,           \* what the resolved path names on disk during the call
    project_root,   \* value _project_root_dir() returned to the call
    path,           \* the local `path`
    opened,         \* whether open(path) succeeded in the call
    config,         \* the local `config`
    exc,            \* exception in flight inside the try block
    log,            \* records the call has sent to the structured logger
    outcome,        \* how the call ended: a returned value or a raised error
    _configured,    \* CustomLogger._configured
    clock,          \* wall clock, in seconds
    dirs,           \* directories os.makedirs has ensured
    rootHandlers,   \* logging.getLogger().handlers
    openedLogFiles, \* files a logging.FileHandler has opened, in order
    pipelines,      \* number of structlog.configure calls
    configureCalls, \* number of _configure executions started
    tpc,            \* per thread: position inside CustomLogger.__init__
    log_file_path,  \* per thread: self.log_file_path of its latest instance
    constructions,  \* number of constructions that have returned
    firstPath       \* log_file_path of the first construction

cfgVars == <<CONFIG_PATH, pc, config_path, file, project_root, path, opened,
             config, exc, log, outcome>>
logVars == <<_configured, clock, dirs, rootHandlers, openedLogFiles, pipelines,
             configureCalls, tpc, log_file_path, constructions, firstPath>>
vars == <<repoDir, cfgVars, logVars>>

(* ============================== load_config ============================ *)
(* variant: the environment variable is consulted before the argument      *)
ChosenPathEnvFirst(arg, env, root) ==
    IF env.some /\ env.val # <<>> THEN env.val
    ELSE IF arg.some THEN arg.val
    ELSE PathStr(JoinPath(JoinPath(root, Path(<<"config">>)),
                          Path(<<"configuration.yaml">>)))

(* lines 41-42: which string names the configuration file                  *)
ChosenPath(arg, env, root) ==
    IF arg.some THEN arg.val
    ELSE IF env.some /\ env.val # <<>> THEN env.val
    ELSE PathStr(JoinPath(JoinPath(root, Path(<<"config">>)),
                          Path(<<"configuration.yaml">>)))

(* lines 44-46 *)
ResolvePath(chosen, root) ==
    IF is_absolute(Path(chosen)) THEN Path(chosen) ELSE JoinPath(root, Path(chosen))

(* variant: the existence check always passes                              *)
existsAlways(f) == TRUE

(* line 49: path.exists() *)
exists(f) == f.kind # "missing"

(* line 54: open(path, "r") *)
OpenError(f) ==
    CASE f.kind = "missing" -> Exc("FileNotFoundError")
      [] f.kind = "directory" -> Exc("IsADirectoryError")
      [] f.kind = "unreadable" -> Exc("PermissionError")
      [] OTHER -> NoExc

(* variant: the `or {}` is dropped                                         *)
OrNothing(v) == v

(* line 55: yaml.safe_load(f) or {} *)
OrEmptyDict(v) == IF Truthy(v) THEN v ELSE EmptyDict

(* variant: the summary lists the values instead of the keys               *)
top_values(c) ==
    IF c.type = "dict" THEN c.vals ELSE IF c.type = "list" THEN c.items ELSE <<c.val>>

(* line 58 *)
top_keys(c) == IF c.type = "dict" THEN c.keys ELSE <<>>

(* variant: the clause is `except OSError`                                 *)
CatchesOSError(e) ==
    e.type \in {"FileNotFoundError", "IsADirectoryError", "PermissionError"}

(* line 63: except Exception *)
Catches(e) == e.type \in ExceptionSubclasses

NotFoundRecord(p) ==
    [level |-> "error", event |-> "Configuration file not found:", path |-> PathStr(p)]
SuccessRecord(p, c) ==
    [level |-> "info", event |-> "Configuration loaded successfully",
     path |-> PathStr(p), keys |-> top_keys(c)]
FailureRecord(e) ==
    [level |-> "error", event |-> "Failed to load configuration", error |-> e.type]

CfgInit ==
    /\ CONFIG_PATH \in OptPathStrings
    /\ pc = "idle"
    /\ config_path = None
    /\ file = Missing
    /\ project_root = None
    /\ path = None
    /\ opened = FALSE
    /\ config = None
    /\ exc = NoExc
    /\ log = <<>>
    /\ outcome = None

(* A caller enters load_config(config_path).                               *)
Call ==
    /\ pc = "idle"
    /\ \E arg \in OptPathStrings, f \in FileStates :
          /\ config_path' = arg
          /\ file' = f
    /\ pc' = "resolve"
    /\ project_root' = None
    /\ path' = None
    /\ opened' = FALSE
    /\ config' = None
    /\ exc' = NoExc
    /\ log' = <<>>
    /\ outcome' = None
    /\ UNCHANGED <<repoDir, CONFIG_PATH, logVars>>

(* lines 38-46 *)
Resolve ==
    /\ pc = "resolve"
    /\ project_root' = Some(_project_root_dir(repoDir))
    /\ path' = Some(ResolvePath(ChosenPath(config_path, CONFIG_PATH,
                                           _project_root_dir(repoDir)),
                                _project_root_dir(repoDir)))
    /\ pc' = "exists"
    /\ UNCHANGED <<repoDir, CONFIG_PATH, config_path, file, opened, config, exc,
                   log, outcome, logVars>>

(* line 49 *)
CheckExists ==
    /\ pc = "exists"
    /\ pc' = IF exists(file) THEN "open" ELSE "notfound"
    /\ UNCHANGED <<repoDir, CONFIG_PATH, config_path, file, project_root, path,
                   opened, config, exc, log, outcome, logVars>>

(* line 50 *)
LogNotFound ==
    /\ pc = "notfound"
    /\ log' = Append(log, NotFoundRecord(path.val))
    /\ pc' = "raise_notfound"
    /\ UNCHANGED <<repoDir, CONFIG_PATH, config_path, file, project_root, path,
                   opened, config, exc, outcome, logVars>>

(* line 51 *)
RaiseNotFound ==
    /\ pc = "raise_notfound"
    /\ exc' = Exc("FileNotFoundError")
    /\ pc' = "except"
    /\ UNCHANGED <<repoDir, CONFIG_PATH, config_path, file, project_root, path,
                   opened, config, log, outcome, logVars>>

(* line 54 *)
OpenFile ==
    /\ pc = "open"
    /\ IF OpenError(file) = NoExc
       THEN opened' = TRUE /\ pc' = "parse" /\ exc' = exc
       ELSE opened' = opened /\ pc' = "except" /\ exc' = OpenError(file)
    /\ UNCHANGED <<repoDir, CONFIG_PATH, config_path, file, project_root, path,
                   config, log, outcome, logVars>>

(* line 55 *)
ParseYaml ==
    /\ pc = "parse"
    /\ IF file.wellformed
       THEN config' = Some(OrEmptyDict(file.doc)) /\ pc' = "summary" /\ exc' = exc
       ELSE config' = config /\ pc' = "except" /\ exc' = Exc("YAMLError")
    /\ UNCHANGED <<repoDir, CONFIG_PATH, config_path, file, project_root, path,
                   opened, log, outcome, logVars>>

(* lines 58-59 *)
LogSummary ==
    /\ pc = "summary"
    /\ log' = Append(log, SuccessRecord(path.val, config.val))
    /\ pc' = "return"
    /\ UNCHANGED <<repoDir, CONFIG_PATH, config_path, file, project_root, path,
                   opened, config, exc, outcome, logVars>>

(* line 61 *)
Return ==
    /\ pc = "return"
    /\ outcome' = [kind |-> "return", value |-> config.val]
    /\ pc' = "done"
    /\ UNCHANGED <<repoDir, CONFIG_PATH, config_path, file, project_root, path,
                   opened, config, exc, log, logVars>>

(* lines 63-64: an exception the clause does not catch leaves the call     *)
(* as it is.                                                               *)
HandleException ==
    /\ pc = "except"
    /\ IF Catches(exc)
       THEN /\ log' = Append(log, FailureRecord(exc))
            /\ pc' = "reraise"
            /\ outcome' = outcome
       ELSE /\ log' = log
            /\ pc' = "done"
            /\ outcome' = [kind |-> "raise", exc |-> exc]
    /\ UNCHANGED <<repoDir, CONFIG_PATH, config_path, file, project_root, path,
                   opened, config, exc, logVars>>

(* line 65 *)
Reraise ==
    /\ pc = "reraise"
    /\ outcome' = [kind |-> "raise", exc |-> CustomException(FailedMessage, exc)]
    /\ pc' = "done"
    /\ UNCHANGED <<repoDir, CONFIG_PATH, config_path, file, project_root, path,
                   opened, config, exc, log, logVars>>

(* The call has ended and its caller goes on; it may call again.           *)
CallerResumes ==
    /\ pc = "done"
    /\ pc' = "idle"
    /\ config_path' = None
    /\ file' = Missing
    /\ project_root' = None
    /\ path' = None
    /\ opened' = FALSE
    /\ config' = None
    /\ exc' = NoExc
    /\ log' = <<>>
    /\ outcome' = None
    /\ UNCHANGED <<repoDir, CONFIG_PATH, logVars>>

(* ============================= CustomLogger ============================ *)
Threads == 1..NumThreads
LogDirs == {"logs", "audit"}

(* line 28 *)
LogsDir(repo, log_dir) == os_path_join(root_dir(repo), log_dir)

(* lines 31-32: the file name carries the time to the second               *)
LogFilePath(dir, now) == [dir |-> dir, prefix |-> "log_", stamp |-> now, suffix |-> ".log"]

FileHandler(p) == [kind |-> "file", path |-> p, level |-> "INFO"]
StreamHandler == [kind |-> "console", level |-> "INFO"]

(* lines 48-52: logging.basicConfig does nothing when the root logger      *)
(* already has handlers.                                                   *)
basicConfig(root, handlers) == IF root = <<>> THEN handlers ELSE root

(* variant: the guard is dropped                                           *)
AlwaysConfigure(flag) == TRUE

(* line 34 *)
ShouldConfigure(flag) == ~flag

Running == {t \in Threads : tpc[t] # "idle"}

LogInit ==
    /\ _configured = FALSE
    /\ clock = 0
    /\ dirs = {}
    /\ rootHandlers = <<>>
    /\ openedLogFiles = <<>>
    /\ pipelines = 0
    /\ configureCalls = 0
    /\ tpc = [t \in Threads |-> "idle"]
    /\ log_file_path = [t \in Threads |-> None]
    /\ constructions = 0
    /\ firstPath = None

(* lines 27-32 *)
Begin(t) ==
    /\ tpc[t] = "idle"
    /\ constructions + Cardinality(Running) < MaxConstructions
    /\ \E log_dir \in LogDirs :
          /\ dirs' = dirs \cup {LogsDir(repoDir, log_dir)}
          /\ log_file_path' =
                [log_file_path EXCEPT ![t] = Some(LogFilePath(LogsDir(repoDir, log_dir), clock))]
    /\ firstPath' = IF firstPath.some THEN firstPath ELSE log_file_path'[t]
    /\ tpc' = [tpc EXCEPT ![t] = "guard"]
    /\ UNCHANGED <<repoDir, cfgVars, _configured, clock, rootHandlers, openedLogFiles,
                   pipelines, configureCalls, constructions>>

(* variant: lines 35 and 36 swapped, the flag is raised as the guard is   *)
(* passed, before _configure runs                                          *)
GuardSetsFlag(t) ==
    /\ tpc[t] = "guard"
    /\ IF ShouldConfigure(_configured)
       THEN /\ tpc' = [tpc EXCEPT ![t] = "cfg_file"]
            /\ configureCalls' = configureCalls + 1
            /\ _configured' = TRUE
       ELSE /\ tpc' = [tpc EXCEPT ![t] = "return"]
            /\ configureCalls' = configureCalls
            /\ _configured' = _configured
    /\ UNCHANGED <<repoDir, cfgVars, clock, dirs, rootHandlers,
                   openedLogFiles, pipelines, log_file_path, constructions, firstPath>>

(* line 34 *)
Guard(t) ==
    /\ tpc[t] = "guard"
    /\ IF ShouldConfigure(_configured)
       THEN /\ tpc' = [tpc EXCEPT ![t] = "cfg_file"]
            /\ configureCalls' = configureCalls + 1
       ELSE /\ tpc' = [tpc EXCEPT ![t] = "return"]
            /\ configureCalls' = configureCalls
    /\ UNCHANGED <<repoDir, cfgVars, _configured, clock, dirs, rootHandlers,
                   openedLogFiles, pipelines, log_file_path, constructions, firstPath>>

(* lines 40-42: logging.FileHandler opens its file when it is created      *)
ConfigureFileHandler(t) ==
    /\ tpc[t] = "cfg_file"
    /\ openedLogFiles' = Append(openedLogFiles, log_file_path[t].val)
    /\ tpc' = [tpc EXCEPT ![t] = "cfg_basic"]
    /\ UNCHANGED <<repoDir, cfgVars, _configured, clock, dirs, rootHandlers, pipelines,
                   configureCalls, log_file_path, constructions, firstPath>>

(* lines 44-52 *)
ConfigureBasicConfig(t) ==
    /\ tpc[t] = "cfg_basic"
    /\ rootHandlers' =
          basicConfig(rootHandlers, <<FileHandler(log_file_path[t].val), StreamHandler>>)
    /\ tpc' = [tpc EXCEPT ![t] = "cfg_structlog"]
    /\ UNCHANGED <<repoDir, cfgVars, _configured, clock, dirs, openedLogFiles, pipelines,
                   configureCalls, log_file_path, constructions, firstPath>>

(* lines 54-63 *)
ConfigureStructlog(t) ==
    /\ tpc[t] = "cfg_structlog"
    /\ pipelines' = pipelines + 1
    /\ tpc' = [tpc EXCEPT ![t] = "setflag"]
    /\ UNCHANGED <<repoDir, cfgVars, _configured, clock, dirs, rootHandlers,
                   openedLogFiles, configureCalls, log_file_path, constructions, firstPath>>

(* line 36 *)
SetFlag(t) ==
    /\ tpc[t] = "setflag"
    /\ _configured' = TRUE
    /\ tpc' = [tpc EXCEPT ![t] = "return"]
    /\ UNCHANGED <<repoDir, cfgVars, clock, dirs, rootHandlers, openedLogFiles, pipelines,
                   configureCalls, log_file_path, constructions, firstPath>>

(* __init__ returns the instance *)
Finish(t) ==
    /\ tpc[t] = "return"
    /\ constructions' = constructions + 1
    /\ tpc' = [tpc EXCEPT ![t] = "idle"]
    /\ UNCHANGED <<repoDir, cfgVars, _configured, clock, dirs, rootHandlers,
                   openedLogFiles, pipelines, configureCalls, log_file_path, firstPath>>

(* a second passes on the wall clock *)
Tick ==
    /\ clock < MaxClock
    /\ clock' = clock + 1
    /\ UNCHANGED <<repoDir, cfgVars, _configured, dirs, rootHandlers, openedLogFiles,
                   pipelines, configureCalls, tpc, log_file_path, constructions, firstPath>>

(* ============================ specifications =========================== *)
CfgIdle ==
    /\ CONFIG_PATH = None
    /\ pc = "idle"
    /\ config_path = None
    /\ file = Missing
    /\ project_root = None
    /\ path = None
    /\ opened = FALSE
    /\ config = None
    /\ exc = NoExc
    /\ log = <<>>
    /\ outcome = None

(* load_config, called any number of times by one thread *)
Init == repoDir \in RepoDirs /\ CfgInit /\ LogInit

Next ==
    \/ Call
    \/ Resolve
    \/ CheckExists
    \/ LogNotFound
    \/ RaiseNotFound
    \/ OpenFile
    \/ ParseYaml
    \/ LogSummary
    \/ Return
    \/ HandleException
    \/ Reraise
    \/ CallerResumes

Spec == Init /\ [][Next]_vars

(* CustomLogger constructed by threads of one process *)
InitLogger == repoDir \in RepoDirs /\ CfgIdle /\ LogInit

Step(t) ==
    \/ Begin(t)
    \/ Guard(t)
    \/ ConfigureFileHandler(t)
    \/ ConfigureBasicConfig(t)
    \/ ConfigureStructlog(t)
    \/ SetFlag(t)
    \/ Finish(t)

NextThreads == Tick \/ \E t \in Threads : Step(t)

SpecThreads == InitLogger /\ [][NextThreads]_vars

(* CustomLogger constructed one construction after the other *)
NextSequential == Tick \/ \E t \in Threads : Running \subseteq {t} /\ Step(t)

SpecSequential == InitLogger /\ [][NextSequential]_vars

(* ================================ claims =============================== *)
Range(q) == {q[i] : i \in DOMAIN q}
IsErrorRecord(r) == r.level = "error"
IsNotFoundRecord(r) == r.event = "Configuration file not found:"
ConfiguringThreads ==
    {t \in Threads : tpc[t] \in {"cfg_file", "cfg_basic", "cfg_structlog", "setflag"}}

(* C1: after one or more constructions made one after the other,           *)
(* _configure has run exactly once (one file handler opened, one           *)
(* structlog pipeline), the root logger holds exactly the file handler of  *)
(* the first construction's log_file_path and the console handler, and     *)
(* later constructions leave them so.                                      *)
C1_ConfiguredOnceFirstPathLive ==
    constructions >= 1 =>
        /\ _configured
        /\ configureCalls = 1
        /\ pipelines = 1
        /\ openedLogFiles = <<firstPath.val>>
        /\ rootHandlers = <<FileHandler(firstPath.val), StreamHandler>>

C1_Witness ==
    /\ constructions >= 2
    /\ Running = {}
    /\ \E t \in Threads : log_file_path[t].some /\ log_file_path[t].val # firstPath.val

C2_Failing(f) == f.kind \in {"missing", "directory", "unreadable"} \/ ~f.wellformed
C2_Underlying(f) ==
    CASE f.kind = "missing" -> "FileNotFoundError"
      [] f.kind = "directory" -> "IsADirectoryError"
      [] f.kind = "unreadable" -> "PermissionError"
      [] OTHER -> "YAMLError"
(* C2: a call that meets a missing path, a directory, an unreadable file   *)
(* or malformed YAML ends by raising CustomException with the fixed        *)
(* message and the underlying error as its cause; nothing else is raised,  *)
(* and such a call returns no value.                                       *)
C2_FailuresRaiseCustomException ==
    pc = "done" =>
        /\ (outcome.kind = "raise") <=> C2_Failing(file)
        /\ outcome.kind = "raise" =>
              /\ outcome.exc.type = "CustomException"
              /\ outcome.exc.message = "Failed to load configuration file"
              /\ outcome.exc.details = [type |-> C2_Underlying(file)]
              /\ outcome.exc.context = [type |-> C2_Underlying(file)]

C2_Witness ==
    pc = "done" /\ file = Malformed /\ outcome.kind = "raise"

(* C3: every failing call leaves exactly one error record in the log.      *)
C3_OneErrorRecordPerFailure ==
    (pc = "done" /\ outcome.kind = "raise") => Len(SelectSeq(log, IsErrorRecord)) = 1

(* C4: called with an explicit path that does not exist, load_config logs  *)
(* the "Configuration file not found" error naming the resolved path       *)
(* exactly once, before any error is raised, never opens or parses the     *)
(* file, and ends by raising the wrapped error.                            *)
C4_NotFoundLoggedOnceBeforeRaise ==
    (config_path.some /\ file.kind = "missing" /\ pc # "idle") =>
        /\ ~opened
        /\ ~config.some
        /\ pc \in {"resolve", "exists", "notfound"} =>
              /\ SelectSeq(log, IsNotFoundRecord) = <<>>
              /\ exc = NoExc
              /\ ~outcome.some
        /\ pc \in {"raise_notfound", "except", "reraise", "done"} =>
              SelectSeq(log, IsNotFoundRecord) =
                  << [level |-> "error", event |-> "Configuration file not found:",
                      path |-> PathStr(path.val)] >>
        /\ pc \in {"raise_notfound", "except", "reraise"} => ~outcome.some
        /\ pc = "done" => (outcome.kind = "raise" /\ outcome.exc.type = "CustomException")

C4_Witness ==
    pc = "done" /\ config_path.some /\ file.kind = "missing" /\ outcome.kind = "raise"

C5_Default(root) ==
    RootTokens(root.root) \o JoinSegments(root.parts \o <<"config", "configuration.yaml">>)
C5_Rebased(chosen, root) ==
    IF chosen # <<>> /\ chosen[1] = Slash
    THEN Path(chosen)
    ELSE [root |-> root.root, parts |-> root.parts \o Path(chosen).parts]
C5_WorkingDir == [root |-> "/", parts |-> <<"tmp", "run">>]
C5_Amended(arg, env, root) ==
    IF arg.some THEN arg.val
    ELSE IF env.some /\ env.val # <<>> THEN env.val
    ELSE C5_Default(root)
C5_Claimed(arg, env, root) ==
    IF arg.some THEN arg.val
    ELSE IF env.some THEN env.val
    ELSE C5_Default(root)
(* C5: the path checked and opened is the explicit argument when one is    *)
(* given, else CONFIG_PATH when it is set to a non-empty value, else       *)
(* <project_root>/config/configuration.yaml; a relative choice is rebased  *)
(* onto the project root (not the working directory) and an absolute one   *)
(* is used as it is.                                                       *)
C5_PathPrecedence ==
    path.some =>
        /\ path.val = C5_Rebased(C5_Amended(config_path, CONFIG_PATH, project_root.val),
                                 project_root.val)
        /\ path.val.root # ""
        /\ path.val #
             [root |-> C5_WorkingDir.root,
              parts |-> C5_WorkingDir.parts \o
                        Path(C5_Amended(config_path, CONFIG_PATH, project_root.val)).parts]

C5_Witness ==
    /\ pc = "done"
    /\ config_path.some /\ config_path.val # <<>> /\ config_path.val[1] # Slash
    /\ CONFIG_PATH.some /\ CONFIG_PATH.val # <<>> /\ CONFIG_PATH.val # config_path.val
    /\ opened

(* C5 as first stated: CONFIG_PATH is used whenever it is set.             *)
C5_EnvUsedWheneverSet ==
    path.some =>
        path.val = C5_Rebased(C5_Claimed(config_path, CONFIG_PATH, project_root.val),
                              project_root.val)

(* C6: every call that returns, returns a mapping, whatever the top level  *)
(* of the parsed document is.                                              *)
C6_ReturnsMapping ==
    (pc = "done" /\ outcome.kind = "return") => outcome.value.type = "dict"

(* C7: an existing empty file makes load_config return the empty mapping   *)
(* (not None, no error) and log one success event with an empty key list.  *)
C7_EmptyFileGivesEmptyMapping ==
    (pc = "done" /\ file = FileWith(PyNone)) =>
        /\ outcome = [kind |-> "return", value |-> [type |-> "dict", keys |-> <<>>, vals |-> <<>>]]
        /\ log = << [level |-> "info", event |-> "Configuration loaded successfully",
                     path |-> PathStr(path.val), keys |-> <<>>] >>

C7_Witness ==
    pc = "done" /\ file = FileWith(PyNone) /\ outcome.kind = "return"

C8_Values(d) ==
    CASE d.type = "dict" -> Range(d.vals)
      [] d.type = "list" -> Range(d.items)
      [] d.type = "NoneType" -> {}
      [] OTHER -> {d.val}
C8_Keys(d) == IF d.type = "dict" THEN d.keys ELSE <<>>
(* C8: a call that returns has logged, before returning, exactly one       *)
(* record: the success event with the resolved path and the top-level keys *)
(* of the document (none for a non-mapping); no error record and no        *)
(* configuration value is logged.                                          *)
C8_OneSuccessRecordNoValues ==
    (pc = "return" \/ (pc = "done" /\ outcome.kind = "return")) =>
        /\ Len(log) = 1
        /\ DOMAIN log[1] = {"level", "event", "path", "keys"}
        /\ log[1].level = "info"
        /\ log[1].event = "Configuration loaded successfully"
        /\ log[1].path = PathStr(path.val)
        /\ log[1].keys = C8_Keys(file.doc)
        /\ (Range(log[1].keys) \cup Range(log[1].path)) \cap C8_Values(file.doc) = {}

C8_Witness ==
    /\ pc = "done" /\ outcome.kind = "return"
    /\ file = FileWith(PyDict(<<"a", "b">>, <<"s3cret", "0">>))

(* C9: the flag is written only after a whole _configure has run, so the   *)
(* read at the guard and the write are apart and threads that read it      *)
(* meanwhile pass the guard too: _configure then runs more than once.      *)
C9_FlagWrittenAfterConfigure ==
    /\ _configured => (pipelines >= 1 /\ openedLogFiles # <<>> /\ rootHandlers # <<>>)
    /\ configureCalls = Cardinality({t \in Threads : tpc[t] = "cfg_file"}) + Len(openedLogFiles)

C9_Witness ==
    /\ Cardinality(ConfiguringThreads) >= 2
    /\ ~_configured
    /\ configureCalls >= 2
    /\ pipelines >= 2

(* C10: the project root load_config uses is the directory under which     *)
(* CustomLogger creates the logs directory.                                *)
C10_SameProjectRoot ==
    project_root.some => project_root.val = root_dir(repoDir)

=============================================================================
